---- MODULE Spec2Model ----
(***************************************************************************)
(* Model of the summarization pipeline of powerpoint-tools:                *)
(*   main.py        main, summarize_note                                   *)
(*   summarizers.py clean_summary, summarize_with_{openai,claude,watson}   *)
(*   extractors.py  extract_notes_from_presentation                        *)
(*   writers.py     write_summary_to_{word,md,pdf,txt}                     *)
(* Text is a sequence of one-character strings.                            *)
(***************************************************************************)
EXTENDS Integers, Sequences, FiniteSets, TLC

VARIABLES
    \* ---- one run of main() ----
    args,        \* parsed command line: ai, extract_only, summary_only
    config,      \* the configuration file: min_characters, max_retries, problem
    slides,      \* the presentation: one entry per slide
    notes,       \* extract_notes_from_presentation's result
    summaries,   \* main's list of (slide_number, summary, note)
    pc,          \* position of the run
    idx,         \* number of notes the for loop of main has finished
    summary,     \* main's local `summary` of the current iteration
    attempt,     \* summarize_note's loop variable
    tries,       \* tries of the backoff wrapper in the current adapter call
    calls,       \* provider invocations made for the current note
    permits,     \* throttler acquisitions made for the current note
    sleeps,      \* asyncio.sleep durations of summarize_note, current note
    waits,       \* waits of the backoff wrapper, current note
    result,      \* per note: how its outcome was produced
    doc,         \* what the writer rendered
    throttlers,  \* Throttler objects the run has constructed
    writes,      \* writer invocations of the run
    cause,       \* why the run ended, "none" while nothing ended it
    exit_status, \* exit status of the process, "running" before it exits
    \* ---- clean_summary and the adapters' normalisation as functions ----
    text,        \* input string
    stage,       \* "input", "cleaned", "recleaned", "adapted"
    variant,     \* adapter that normalised `text`
    once,        \* result of the first application
    twice        \* clean_summary(once)

ctlVars == <<throttlers, writes, cause, exit_status>>
runVars == <<args, config, slides, notes, summaries, pc, idx, summary, attempt,
             tries, calls, permits, sleeps, waits, result, doc,
             throttlers, writes, cause, exit_status>>
cleanVars == <<text, stage, variant, once, twice>>
vars == <<args, config, slides, notes, summaries, pc, idx, summary, attempt,
          tries, calls, permits, sleeps, waits, result, doc,
          throttlers, writes, cause, exit_status,
          text, stage, variant, once, twice>>

----------------------------------------------------------------------------
(* Bounds *)

\* longest input string of the clean_summary specification
MaxLen == 6
\* most slides in a presentation
MaxSlides == 2
\* largest min_characters of a configuration
MaxMinChars == 2
\* largest max_retries of a configuration
MaxRetries == 2

----------------------------------------------------------------------------
(* Strings *)

Chars == {"-", " ", "\n", "a", "."}

\* every string of at most n characters
Strings(n) == UNION {[1..k -> Chars] : k \in 0..n}

\* str.isspace for the characters of the model
IsSpace(c) == c \in {" ", "\n", "\t"}

\* str.lstrip()
RECURSIVE LStrip(_)
LStrip(s) ==
    IF s # <<>> /\ IsSpace(Head(s)) THEN LStrip(Tail(s)) ELSE s

\* str.rstrip()
RECURSIVE RStrip(_)
RStrip(s) ==
    IF s # <<>> /\ IsSpace(s[Len(s)]) THEN RStrip(SubSeq(s, 1, Len(s) - 1)) ELSE s

\* str.strip()
Strip(s) == RStrip(LStrip(s))

\* str.split(sep) for a one-character separator
RECURSIVE Split(_, _)
Split(s, sep) ==
    IF \E i \in 1..Len(s) : s[i] = sep
    THEN LET i == CHOOSE k \in 1..Len(s) :
                      s[k] = sep /\ \A j \in 1..(k - 1) : s[j] # sep
         IN  <<SubSeq(s, 1, i - 1)>> \o Split(SubSeq(s, i + 1, Len(s)), sep)
    ELSE <<s>>

\* sep.join(parts)
RECURSIVE Join(_, _)
Join(parts, sep) ==
    IF parts = <<>> THEN <<>>
    ELSE IF Len(parts) = 1 THEN parts[1]
    ELSE parts[1] \o sep \o Join(Tail(parts), sep)

\* str.replace(old, new): leftmost non-overlapping occurrences
RECURSIVE Replace(_, _, _)
Replace(s, old, new) ==
    IF Len(s) < Len(old) THEN s
    ELSE IF SubSeq(s, 1, Len(old)) = old
         THEN new \o Replace(SubSeq(s, Len(old) + 1, Len(s)), old, new)
         ELSE <<Head(s)>> \o Replace(Tail(s), old, new)

----------------------------------------------------------------------------
(* summarizers.py: clean_summary *)

\* the while loop of clean_summary: remove all leading hyphens and spaces
RECURSIVE StripLeadingBullets(_)
StripLeadingBullets(stripped_line) ==
    IF stripped_line # <<>> /\ Head(stripped_line) \in {"-", " "}
    THEN StripLeadingBullets(LStrip(Tail(stripped_line)))
    ELSE stripped_line

\* the body of clean_summary's for loop: the lines a line contributes
CleanLine(line) ==
    LET stripped_line == Strip(line)
    IN  IF stripped_line # <<>>
        THEN <<(<<"-", " ">> \o StripLeadingBullets(stripped_line))>>
        ELSE <<>>

RECURSIVE CleanLines(_)
CleanLines(lines) ==
    IF lines = <<>> THEN <<>>
    ELSE CleanLine(Head(lines)) \o CleanLines(Tail(lines))

clean_summary(s) ==
    LET lines == Split(s, "\n")
        cleaned_lines == CleanLines(lines)
        cleaned_summary == Join(cleaned_lines, <<"\n">>)
    IN  Replace(cleaned_summary, <<"-", " ", "-">>, <<"-">>)

----------------------------------------------------------------------------
(* summarizers.py: what each adapter returns for the provider's raw text *)

\* summarize_with_openai: response.choices[0].message.content.strip()
OpenAISummary(raw) == clean_summary(Strip(raw))

\* summarize_with_claude: content.text
ClaudeSummary(raw) == clean_summary(raw)

\* the list comprehension of summarize_with_watson
RECURSIVE WatsonBullets(_)
WatsonBullets(sentences) ==
    IF sentences = <<>> THEN <<>>
    ELSE (IF Strip(Head(sentences)) # <<>>
          THEN <<(<<"-", " ">> \o Strip(Head(sentences)))>>
          ELSE <<>>) \o WatsonBullets(Tail(sentences))

\* summarize_with_watson: result['summarization']['text']
WatsonSummary(raw) ==
    LET sentences == Split(raw, ".")
        bullet_points == WatsonBullets(sentences)
    IN  Join(bullet_points, <<"\n">>)

AdapterSummary(ai, raw) ==
    CASE ai = "openai" -> OpenAISummary(raw)
      [] ai = "watson" -> WatsonSummary(raw)
      [] ai = "claude" -> ClaudeSummary(raw)

Providers == {"openai", "watson", "claude"}

----------------------------------------------------------------------------
(* extractors.py *)

\* a character outside [\x09\x0A\x0D\x20-\x7F]
NonAscii == "EACUTE"

\* clean_text_for_xml: re.sub(r'[^\x09\x0A\x0D\x20-\x7F]', '', text)
clean_text_for_xml(s) == SelectSeq(s, LAMBDA c : c # NonAscii)

NoNotesFound == <<"N", "o", " ", "n", "o", "t", "e", "s", " ", "f", "o", "u", "n", "d", ".">>
NoNotesSlide == <<"N", "o", " ", "n", "o", "t", "e", "s", " ", "s", "l", "i", "d", "e", ".">>
ErrorProcessingSlide == <<"E", "r", "r", "o", "r", " ", "p", "r", "o", "c", "e", "s", "s", "i", "n", "g", " ", "s", "l", "i", "d", "e", ":", " ">>

\* a slide: has_notes_slide, the text of its notes_text_frame, and whether
\* reading it raises
Slide(has, t, raises) == [has_notes_slide |-> has, text |-> t, raises |-> raises]

SlideKinds ==
    { Slide(FALSE, <<>>, FALSE),
      Slide(TRUE, <<NonAscii>>, FALSE),
      Slide(TRUE, <<"a">>, FALSE),
      Slide(TRUE, <<"a", NonAscii, "b">>, FALSE),
      Slide(TRUE, <<>>, TRUE) }

\* the body of the for loop of extract_notes_from_presentation
ExtractNote(i, slide) ==
    IF slide.raises
    THEN <<i, ErrorProcessingSlide \o <<"x">>>>
    ELSE IF slide.has_notes_slide
         THEN LET notes_text == clean_text_for_xml(slide.text)
              IN  <<i, IF notes_text # <<>> THEN notes_text ELSE NoNotesFound>>
         ELSE <<i, NoNotesSlide>>

extract_notes_from_presentation(prs) ==
    [i \in 1..Len(prs) |-> ExtractNote(i, prs[i])]

----------------------------------------------------------------------------
(* main.py: summarize_note and the loop of main *)

\* Python's None, which is no string
None == <<"None">>

\* truth value of a str or None
Truthy(x) == x # None /\ x # <<>>

\* max_tries of the backoff.on_exception decorator of every adapter
MaxTries == 10

ErrorInSummarization == <<"E", "r", "r", "o", "r", " ", "i", "n", " ", "s", "u", "m", "m", "a", "r", "i", "z", "a", "t", "i", "o", "n", ":", " ">>
ClaudeFailed == <<"C", "l", "a", "u", "d", "e", " ", "s", "u", "m", "m", "a", "r", "i", "z", "a", "t", "i", "o", "n", " ", "f", "a", "i", "l", "e", "d", ":", " ">>
OpenAIFailed == <<"O", "p", "e", "n", "A", "I", " ", "s", "u", "m", "m", "a", "r", "i", "z", "a", "t", "i", "o", "n", " ", "f", "a", "i", "l", "e", "d", ":", " ">>
WatsonFailed == <<"W", "a", "t", "s", "o", "n", " ", "s", "u", "m", "m", "a", "r", "i", "z", "a", "t", "i", "o", "n", " ", "f", "a", "i", "l", "e", "d", ":", " ">>

\* str(e) of the exception the provider's client raised
ProviderError == <<"t", "i", "m", "e", "o", "u", "t">>

\* str(e) of the SummarizationError an adapter raises
AdapterError(ai) ==
    (CASE ai = "openai" -> OpenAIFailed
       [] ai = "watson" -> WatsonFailed
       [] ai = "claude" -> ClaudeFailed) \o ProviderError

\* str(response.content) of a Claude response whose content is an empty list
StrOfEmptyContent == <<"[", "]">>

\* summarize_with_claude: the text taken from a response, which either has a
\* content block with a text or has none
ClaudeResponseText(has_text, t) == IF has_text THEN t ELSE StrOfEmptyContent

\* an `except Exception` that also catches an interrupt or a cancellation
IsException_CatchAll(exc) == TRUE

\* whether `except Exception` catches exc: KeyboardInterrupt and
\* asyncio.CancelledError derive from BaseException only
IsException(exc) == exc \notin {"KeyboardInterrupt", "CancelledError"}

\* a try block that ends before the writers, so that they still run
FaultAbortsRun_LoopOnly(exc) == FALSE

\* main: the try block encloses the loop and the writers, so an exception
\* that leaves the loop skips the writers
FaultAbortsRun(exc) == TRUE

\* the status of sys.exit in the handler that ends the process: main's
\* `except Exception` exits 1, `except KeyboardInterrupt` of __main__ exits 0
ExitStatusFor(exc) == IF IsException(exc) THEN "1" ELSE "0"

\* raw texts a provider answers with
RawResponses == { <<"a", ".", "-", "b">> }

\* what each adapter returns for each text a response can carry, computed
\* once for all the calls of a run
AdapterResults ==
    [ai \in Providers |->
        [raw \in RawResponses \cup {StrOfEmptyContent} |-> AdapterSummary(ai, raw)]]

\* a sentinel test that knows one marker only
IsSentinel_FoundOnly(note) == note = NoNotesFound

\* main: note == "No notes found." or note == "No notes slide."
IsSentinel(note) == note = NoNotesFound \/ note = NoNotesSlide

\* a threshold that is exclusive at min_characters
TooShort_Inclusive(note, min_characters) == Len(note) <= min_characters

\* main: len(note) < config.min_characters
TooShort(note, min_characters) == Len(note) < min_characters

\* a pass-through that omits the summary
PassThroughSummary_Omitted(note) == <<>>

\* main: the summary of a note that is not dispatched
PassThroughSummary(note) == note

\* a final-attempt test that is off by one
IsFinalAttempt_OffByOne(a, max_retries) == a = max_retries

\* summarize_note: attempt == config.max_retries - 1
IsFinalAttempt(a, max_retries) == a = max_retries - 1

\* summarize_note: f"Error in summarization: {str(e)}"
ErrorSummary(e) == ErrorInSummarization \o e

\* 2 ** attempt
RECURSIVE Pow2(_)
Pow2(n) == IF n = 0 THEN 1 ELSE 2 * Pow2(n - 1)

\* an append that skips a unit without a summary
AppendOutcome_SkipsEmpty(list, slide_number, s, note, summary_only) ==
    IF ~Truthy(s) THEN list
    ELSE IF summary_only
    THEN Append(list, <<slide_number, s, <<>>>>)
    ELSE Append(list, <<slide_number, s, note>>)

\* main: summaries.append(...) under args.summary_only or not
AppendOutcome(list, slide_number, s, note, summary_only) ==
    IF summary_only
    THEN Append(list, <<slide_number, s, <<>>>>)
    ELSE Append(list, <<slide_number, s, note>>)

\* an extract-only list that leaves the notes out
ExtractOnlySummaries_NoNotes(ns) == [k \in 1..Len(ns) |-> <<ns[k][1], <<>>, <<>>>>]

\* main: summaries of an extract-only run
ExtractOnlySummaries(ns) == [k \in 1..Len(ns) |-> <<ns[k][1], <<>>, ns[k][2]>>]

----------------------------------------------------------------------------
(* writers.py: the loop shared by the four writers *)

RenderSlide(t, summary_only) ==
    <<<<"Slide", t[1]>>>>
    \o (IF Truthy(t[2]) THEN <<<<"Summary", t[2]>>>> ELSE <<>>)
    \o (IF ~summary_only /\ t[3] # <<>> THEN <<<<"Notes", t[3]>>>> ELSE <<>>)

write_summary(list, summary_only) ==
    [k \in 1..Len(list) |-> RenderSlide(list[k], summary_only)]

----------------------------------------------------------------------------
(* One run of main() *)

Sentinels == {NoNotesFound, NoNotesSlide}

\* values of min_characters: around the lengths of the notes, and one above
\* the length of the sentinels
MinCharsValues == (0..MaxMinChars) \cup {Len(NoNotesFound) + 1}

\* what is wrong with the configuration file, if anything:
\*   "missing_key"          a key of Config is absent
\*   "min_characters_type"  min_characters is a JSON string, not a number
\*   "max_retries_type"     max_retries is a JSON string, not a number
\* Config(**filtered_config) checks no type and no range.
Configs ==
    [min_characters : MinCharsValues, max_retries : 0..MaxRetries, problem : {"none"}]
    \cup [min_characters : MinCharsValues, max_retries : {0},
          problem : {"max_retries_type"}]
    \cup [min_characters : {0}, max_retries : {1},
          problem : {"missing_key", "min_characters_type"}]

Decks == UNION {[1..n -> SlideKinds] : n \in 0..MaxSlides}

\* the note of the current iteration of main's for loop
CurNumber == notes[idx + 1][1]
CurNote == notes[idx + 1][2]

Outcome(path, raw) == [path |-> path, raw |-> raw]

CleanIdle ==
    /\ text = <<>>
    /\ stage = "off"
    /\ variant = "none"
    /\ once = <<>>
    /\ twice = <<>>

Init ==
    /\ args \in [ai : Providers, extract_only : BOOLEAN, summary_only : BOOLEAN]
    /\ config \in Configs
    /\ slides \in Decks
    /\ notes = <<>>
    /\ summaries = <<>>
    /\ pc = "load"
    /\ idx = 0
    /\ summary = <<>>
    /\ attempt = 0
    /\ tries = 0
    /\ calls = 0
    /\ permits = 0
    /\ sleeps = <<>>
    /\ waits = 0
    /\ result = <<>>
    /\ doc = <<>>
    /\ throttlers = 0
    /\ writes = 0
    /\ cause = "none"
    /\ exit_status = "running"
    /\ CleanIdle

\* the process exits: the locals of main are gone, the output file stays
Exit(why, status) ==
    /\ pc' = "exited"
    /\ cause' = why
    /\ exit_status' = status
    /\ summaries' = <<>>
    /\ idx' = 0
    /\ summary' = <<>>
    /\ attempt' = 0
    /\ tries' = 0
    /\ calls' = 0
    /\ permits' = 0
    /\ sleeps' = <<>>
    /\ waits' = 0
    /\ UNCHANGED <<args, config, slides, notes, result, doc, throttlers, writes>>
    /\ UNCHANGED cleanVars

\* main: config = await load_config(args.config) returns a Config
LoadConfig ==
    /\ pc = "load"
    /\ config.problem # "missing_key"
    /\ pc' = "extract"
    /\ UNCHANGED <<args, config, slides, notes, summaries, idx, summary, attempt,
                   tries, calls, permits, sleeps, waits, result, doc>>
    /\ UNCHANGED ctlVars
    /\ UNCHANGED cleanVars

\* load_config raises ValueError for the missing keys; main logs it under
\* `except Exception` and calls sys.exit(1)
LoadConfigFails ==
    /\ pc = "load"
    /\ config.problem = "missing_key"
    /\ Exit("config", "1")

\* main: notes = await extract_notes_from_presentation(args.presentation),
\* and throttler = Throttler(rate_limit=config.rate_limit)
Extract ==
    /\ pc = "extract"
    /\ notes' = extract_notes_from_presentation(slides)
    /\ throttlers' = throttlers + 1
    /\ pc' = "loop"
    /\ UNCHANGED <<args, config, slides, summaries, idx, summary, attempt, tries,
                   calls, permits, sleeps, waits, result, doc>>
    /\ UNCHANGED <<writes, cause, exit_status>>
    /\ UNCHANGED cleanVars

\* main: the else branch of `if not args.extract_only`
ExtractOnly ==
    /\ pc = "loop"
    /\ args.extract_only
    /\ summaries' = ExtractOnlySummaries(notes)
    /\ result' = [k \in 1..Len(notes) |-> Outcome("extract_only", <<>>)]
    /\ pc' = "write"
    /\ UNCHANGED <<args, config, slides, notes, idx, summary, attempt, tries,
                   calls, permits, sleeps, waits, doc>>
    /\ UNCHANGED ctlVars
    /\ UNCHANGED cleanVars

\* main: the sentinel branch of the loop body
PassSentinel ==
    /\ pc = "loop"
    /\ ~args.extract_only
    /\ idx < Len(notes)
    /\ IsSentinel(CurNote)
    /\ summary' = PassThroughSummary(CurNote)
    /\ result' = Append(result, Outcome("sentinel", <<>>))
    /\ pc' = "append"
    /\ UNCHANGED <<args, config, slides, notes, summaries, idx, attempt, tries,
                   calls, permits, sleeps, waits, doc>>
    /\ UNCHANGED ctlVars
    /\ UNCHANGED cleanVars

\* main: the too-short branch of the loop body
PassShort ==
    /\ pc = "loop"
    /\ ~args.extract_only
    /\ idx < Len(notes)
    /\ ~IsSentinel(CurNote)
    /\ config.problem # "min_characters_type"
    /\ TooShort(CurNote, config.min_characters)
    /\ summary' = PassThroughSummary(CurNote)
    /\ result' = Append(result, Outcome("short", <<>>))
    /\ pc' = "append"
    /\ UNCHANGED <<args, config, slides, notes, summaries, idx, attempt, tries,
                   calls, permits, sleeps, waits, doc>>
    /\ UNCHANGED ctlVars
    /\ UNCHANGED cleanVars

\* main: the else branch, entering summarize_note
Dispatch ==
    /\ pc = "loop"
    /\ ~args.extract_only
    /\ idx < Len(notes)
    /\ ~IsSentinel(CurNote)
    /\ config.problem # "min_characters_type"
    /\ ~TooShort(CurNote, config.min_characters)
    /\ attempt' = 0
    /\ pc' = "attempt"
    /\ UNCHANGED <<args, config, slides, notes, summaries, idx, summary, tries,
                   calls, permits, sleeps, waits, result, doc>>
    /\ UNCHANGED ctlVars
    /\ UNCHANGED cleanVars

\* summarize_note: the next iteration of `for attempt in range(max_retries)`
\* calls the decorated adapter, whose wrapper makes its first try
BeginAttempt ==
    /\ pc = "attempt"
    /\ config.problem # "max_retries_type"
    /\ attempt < config.max_retries
    /\ tries' = 1
    /\ pc' = "acquire"
    /\ UNCHANGED <<args, config, slides, notes, summaries, idx, summary, attempt,
                   calls, permits, sleeps, waits, result, doc>>
    /\ UNCHANGED ctlVars
    /\ UNCHANGED cleanVars

\* summarize_note: the range is exhausted and the function falls off its end
ReturnNone ==
    /\ pc = "attempt"
    /\ config.problem # "max_retries_type"
    /\ ~(attempt < config.max_retries)
    /\ summary' = None
    /\ result' = Append(result, Outcome("none", <<>>))
    /\ pc' = "append"
    /\ UNCHANGED <<args, config, slides, notes, summaries, idx, attempt, tries,
                   calls, permits, sleeps, waits, doc>>
    /\ UNCHANGED ctlVars
    /\ UNCHANGED cleanVars

\* a call that starts without entering the throttler
AcquiredPermits_Bypassed(p) == p

\* the permits taken from the throttler once `async with throttler` is
\* entered: one for each entry
AcquiredPermits(p) == p + 1

\* adapter: async with throttler
Acquire ==
    /\ pc = "acquire"
    /\ permits' = AcquiredPermits(permits)
    /\ pc' = "calling"
    /\ UNCHANGED <<args, config, slides, notes, summaries, idx, summary, attempt,
                   tries, calls, sleeps, waits, result, doc>>
    /\ UNCHANGED ctlVars
    /\ UNCHANGED cleanVars

\* adapter: the provider answers and the adapter returns its summary
ProviderSuccess ==
    /\ pc = "calling"
    /\ \E raw \in RawResponses :
          /\ summary' = AdapterResults[args.ai][raw]
          /\ result' = Append(result, Outcome("summarized", raw))
    /\ calls' = calls + 1
    /\ pc' = "append"
    /\ UNCHANGED <<args, config, slides, notes, summaries, idx, attempt, tries,
                   permits, sleeps, waits, doc>>
    /\ UNCHANGED ctlVars
    /\ UNCHANGED cleanVars

\* adapter: the call fails, the adapter raises SummarizationError, and the
\* backoff wrapper waits and tries again
AdapterRetried ==
    /\ pc = "calling"
    /\ tries < MaxTries
    /\ calls' = calls + 1
    /\ tries' = tries + 1
    /\ waits' = waits + 1
    /\ pc' = "acquire"
    /\ UNCHANGED <<args, config, slides, notes, summaries, idx, summary, attempt,
                   permits, sleeps, result, doc>>
    /\ UNCHANGED ctlVars
    /\ UNCHANGED cleanVars

\* adapter: the call fails on the wrapper's last try, and the
\* SummarizationError reaches summarize_note
AdapterRaised ==
    /\ pc = "calling"
    /\ ~(tries < MaxTries)
    /\ calls' = calls + 1
    /\ pc' = "except"
    /\ UNCHANGED <<args, config, slides, notes, summaries, idx, summary, attempt,
                   tries, permits, sleeps, waits, result, doc>>
    /\ UNCHANGED ctlVars
    /\ UNCHANGED cleanVars

\* summarize_note: except SummarizationError on the final attempt
ReturnError ==
    /\ pc = "except"
    /\ IsFinalAttempt(attempt, config.max_retries)
    /\ summary' = ErrorSummary(AdapterError(args.ai))
    /\ result' = Append(result, Outcome("failed", <<>>))
    /\ pc' = "append"
    /\ UNCHANGED <<args, config, slides, notes, summaries, idx, attempt, tries,
                   calls, permits, sleeps, waits, doc>>
    /\ UNCHANGED ctlVars
    /\ UNCHANGED cleanVars

\* summarize_note: except SummarizationError before the final attempt
SleepAndRetry ==
    /\ pc = "except"
    /\ ~IsFinalAttempt(attempt, config.max_retries)
    /\ sleeps' = Append(sleeps, Pow2(attempt))
    /\ attempt' = attempt + 1
    /\ pc' = "attempt"
    /\ UNCHANGED <<args, config, slides, notes, summaries, idx, summary, tries,
                   calls, permits, waits, result, doc>>
    /\ UNCHANGED ctlVars
    /\ UNCHANGED cleanVars

\* adapter (Claude): the response has no text, and str() of its content is
\* cleaned and returned as the summary.  (OpenAI and Watson raise inside
\* their try for such a response, which is AdapterRetried or AdapterRaised.)
ProviderNoText ==
    /\ pc = "calling"
    /\ args.ai = "claude"
    /\ summary' = AdapterResults["claude"][ClaudeResponseText(FALSE, <<>>)]
    /\ result' = Append(result, Outcome("summarized", ClaudeResponseText(FALSE, <<>>)))
    /\ calls' = calls + 1
    /\ pc' = "append"
    /\ UNCHANGED <<args, config, slides, notes, summaries, idx, attempt, tries,
                   permits, sleeps, waits, doc>>
    /\ UNCHANGED ctlVars
    /\ UNCHANGED cleanVars

\* an exception that no handler of summarize_note or of the adapters takes
\* leaves the for loop of main
RaiseInUnit(exc) ==
    IF FaultAbortsRun(exc)
    THEN Exit("fault", ExitStatusFor(exc))
    ELSE /\ pc' = "write"
         /\ cause' = "fault"
         /\ UNCHANGED <<args, config, slides, notes, summaries, idx, summary,
                        attempt, tries, calls, permits, sleeps, waits, result, doc,
                        throttlers, writes, exit_status>>
         /\ UNCHANGED cleanVars

\* main: len(note) < config.min_characters raises TypeError for a str
CompareFault ==
    /\ pc = "loop"
    /\ ~args.extract_only
    /\ idx < Len(notes)
    /\ ~IsSentinel(CurNote)
    /\ config.problem = "min_characters_type"
    /\ RaiseInUnit("TypeError")

\* summarize_note: range(config.max_retries) raises TypeError for a str
RangeFault ==
    /\ pc = "attempt"
    /\ config.problem = "max_retries_type"
    /\ RaiseInUnit("TypeError")

\* the user interrupts the run: the main task is cancelled where it is
\* suspended, in one of the awaits of main, summarize_note or an adapter.
\* No handler on the way is for BaseException, so asyncio.run raises
\* KeyboardInterrupt and __main__ exits 0.  A call that is in flight in its
\* thread is not waited for by any code of the run.
Interrupt ==
    /\ pc \in {"load", "extract", "acquire", "calling", "except", "write"}
    /\ cause = "none"
    /\ IF ~IsException("CancelledError")
       THEN Exit("interrupt", ExitStatusFor("KeyboardInterrupt"))
       ELSE IF pc \in {"acquire", "calling"} /\ tries < MaxTries
       THEN \* the backoff wrapper takes it for a failed try
            /\ cause' = "interrupt"
            /\ tries' = tries + 1
            /\ waits' = waits + 1
            /\ pc' = "acquire"
            /\ UNCHANGED <<args, config, slides, notes, summaries, idx, summary,
                           attempt, calls, permits, sleeps, result, doc,
                           throttlers, writes, exit_status>>
            /\ UNCHANGED cleanVars
       ELSE IF pc = "calling"
       THEN \* the adapter turns it into a SummarizationError
            /\ cause' = "interrupt"
            /\ pc' = "except"
            /\ UNCHANGED <<args, config, slides, notes, summaries, idx, summary,
                           attempt, tries, calls, permits, sleeps, waits, result,
                           doc, throttlers, writes, exit_status>>
            /\ UNCHANGED cleanVars
       ELSE Exit("interrupt", ExitStatusFor("CancelledError"))

\* main: summaries.append(...), and the loop moves to the next note
AppendSummary ==
    /\ pc = "append"
    /\ summaries' = AppendOutcome(summaries, CurNumber, summary, CurNote,
                                  args.summary_only)
    /\ idx' = idx + 1
    /\ summary' = <<>>
    /\ attempt' = 0
    /\ tries' = 0
    /\ calls' = 0
    /\ permits' = 0
    /\ sleeps' = <<>>
    /\ waits' = 0
    /\ pc' = "loop"
    /\ UNCHANGED <<args, config, slides, notes, result, doc>>
    /\ UNCHANGED ctlVars
    /\ UNCHANGED cleanVars

\* main: the for loop ends
LoopDone ==
    /\ pc = "loop"
    /\ ~args.extract_only
    /\ idx = Len(notes)
    /\ pc' = "write"
    /\ UNCHANGED <<args, config, slides, notes, summaries, idx, summary, attempt,
                   tries, calls, permits, sleeps, waits, result, doc>>
    /\ UNCHANGED ctlVars
    /\ UNCHANGED cleanVars

\* main: the writer of args.format writes the file, main returns and the
\* process ends
Write ==
    /\ pc = "write"
    /\ doc' = write_summary(summaries, args.summary_only)
    /\ writes' = writes + 1
    /\ pc' = "done"
    /\ cause' = (IF cause = "none" THEN "completed" ELSE cause)
    /\ exit_status' = "0"
    /\ UNCHANGED <<args, config, slides, notes, summaries, idx, summary, attempt,
                   tries, calls, permits, sleeps, waits, result, throttlers>>
    /\ UNCHANGED cleanVars

\* check_write_permissions raises FileNotFoundError or PermissionError before
\* the writer opens the file; main logs it and calls sys.exit(1)
WriteFails ==
    /\ pc = "write"
    /\ writes' = writes + 1
    /\ pc' = "exited"
    /\ cause' = "writer"
    /\ exit_status' = "1"
    /\ summaries' = <<>>
    /\ idx' = 0
    /\ UNCHANGED <<args, config, slides, notes, summary, attempt, tries, calls,
                   permits, sleeps, waits, result, doc, throttlers>>
    /\ UNCHANGED cleanVars

Next ==
    \/ LoadConfig
    \/ LoadConfigFails
    \/ Extract
    \/ ExtractOnly
    \/ PassSentinel
    \/ PassShort
    \/ Dispatch
    \/ BeginAttempt
    \/ ReturnNone
    \/ Acquire
    \/ ProviderSuccess
    \/ AdapterRetried
    \/ AdapterRaised
    \/ ReturnError
    \/ SleepAndRetry
    \/ ProviderNoText
    \/ CompareFault
    \/ RangeFault
    \/ Interrupt
    \/ AppendSummary
    \/ LoopDone
    \/ Write
    \/ WriteFails

Spec == Init /\ [][Next]_vars

----------------------------------------------------------------------------
(* clean_summary and the adapters applied to every short string *)

RunIdle ==
    /\ args = [ai |-> "claude", extract_only |-> FALSE, summary_only |-> FALSE]
    /\ config = [min_characters |-> 0, max_retries |-> 0, problem |-> "none"]
    /\ slides = <<>>
    /\ notes = <<>>
    /\ summaries = <<>>
    /\ pc = "off"
    /\ idx = 0
    /\ summary = <<>>
    /\ attempt = 0
    /\ tries = 0
    /\ calls = 0
    /\ permits = 0
    /\ sleeps = <<>>
    /\ waits = 0
    /\ result = <<>>
    /\ doc = <<>>
    /\ throttlers = 0
    /\ writes = 0
    /\ cause = "none"
    /\ exit_status = "running"

InitClean ==
    /\ RunIdle
    /\ text \in Strings(MaxLen)
    /\ stage = "input"
    /\ variant = "none"
    /\ once = <<>>
    /\ twice = <<>>

\* clean_summary(text)
Clean ==
    /\ stage = "input"
    /\ once' = clean_summary(text)
    /\ stage' = "cleaned"
    /\ UNCHANGED <<text, variant, twice>>
    /\ UNCHANGED runVars

\* clean_summary(clean_summary(text))
CleanAgain ==
    /\ stage = "cleaned"
    /\ twice' = clean_summary(once)
    /\ stage' = "recleaned"
    /\ UNCHANGED <<text, variant, once>>
    /\ UNCHANGED runVars

\* an adapter receives `text` from its provider and returns its summary
Adapt ==
    /\ stage = "input"
    /\ \E ai \in Providers :
          /\ variant' = ai
          /\ once' = AdapterSummary(ai, text)
    /\ stage' = "adapted"
    /\ UNCHANGED <<text, twice>>
    /\ UNCHANGED runVars

NextClean ==
    \/ Clean
    \/ CleanAgain
    \/ Adapt

SpecClean == InitClean /\ [][NextClean]_vars

----------------------------------------------------------------------------
(* Properties of a run *)

Summarizing == ~args.extract_only
Finished == pc \in {"write", "done"}
InSummarizeNote == pc \in {"attempt", "acquire", "calling", "except"}
DispatchedPaths == {"summarized", "failed", "none"}
PathOf(k) == result[k].path
\* the outcome of the current note, once its summary is set
CurPath == result[idx + 1].path

\* C1: a run that is not extract-only produces exactly one outcome triple per
\* text unit, in index order: the outcomes so far are those of the first idx
\* notes, and at the end their indices are 1..N with no loss and no duplicate.
C1_OrderPreserved ==
    Summarizing =>
        /\ Len(summaries) = idx
        /\ \A k \in 1..Len(summaries) : summaries[k][1] = notes[k][1]
        /\ Finished =>
              /\ Len(summaries) = Len(slides)
              /\ \A k \in 1..Len(summaries) : summaries[k][1] = k

C1_Witness ==
    /\ pc = "done"
    /\ Summarizing
    /\ Len(summaries) >= 2
    /\ \E j, k \in 1..Len(summaries) :
          /\ PathOf(j) = "failed"
          /\ PathOf(k) \in {"summarized", "sentinel", "short"}

\* the summary a unit gets from its own text and its own provider result
ExpectedSummary(note, r) ==
    CASE r.path \in {"sentinel", "short"} -> note
      [] r.path = "summarized" -> AdapterResults[args.ai][r.raw]
      [] r.path = "failed" -> ErrorInSummarization \o AdapterError(args.ai)
      [] r.path = "none" -> None
      [] r.path = "extract_only" -> <<>>

\* C2: failure isolation. A unit whose provider was called and failed on
\* every call ends Failed with the error string as its summary; the loop goes
\* on, so every unit has an outcome at the end; and each unit's summary is
\* the one its own text and its own provider result determine, whatever
\* happened to the other units.
C2_FailureIsolation ==
    /\ (pc = "append" /\ calls > 0 /\ CurPath # "summarized") =>
          /\ CurPath = "failed"
          /\ summary = ErrorInSummarization \o AdapterError(args.ai)
    /\ \A k \in 1..Len(summaries) :
          summaries[k][2] = ExpectedSummary(notes[k][2], result[k])
    /\ (Finished /\ Summarizing) => Len(result) = Len(notes)

C2_Witness ==
    /\ pc = "done"
    /\ \E j, k \in 1..Len(summaries) :
          /\ j < k
          /\ PathOf(j) = "failed"
          /\ PathOf(k) = "summarized"
          /\ summaries[k][2] = AdapterSummary(args.ai, result[k].raw)

\* C3: retry exhaustion. A unit that becomes Failed under max_retries = n >= 1
\* had its provider invoked exactly n times, with no wait other than the
\* sleeps 2^0 .. 2^(n-2) of summarize_note.
C3_RetryExhaustion ==
    (pc = "append" /\ CurPath = "failed" /\ config.max_retries >= 1) =>
        /\ calls = config.max_retries
        /\ waits = 0
        /\ sleeps = [k \in 1..(config.max_retries - 1) |-> Pow2(k - 1)]

\* C4: with max_retries 0 or 1 a dispatched unit gets exactly one provider
\* attempt and no sleep, and its summary is the provider's summary or the
\* error string.
C4_SingleAttempt ==
    (pc = "append" /\ CurPath \in DispatchedPaths /\ config.max_retries \in {0, 1}) =>
        /\ calls = 1
        /\ sleeps = <<>>
        /\ waits = 0
        /\ \/ \E raw \in RawResponses : summary = AdapterResults[args.ai][raw]
           \/ summary = ErrorInSummarization \o AdapterError(args.ai)

\* C5: threshold boundary. A note that is no sentinel is passed through
\* without any provider call when it is shorter than min_characters, and is
\* dispatched to summarize_note when its length is min_characters or more,
\* where the provider is called under a throttler permit as soon as
\* max_retries allows one attempt.
C5_ThresholdBoundary ==
    Summarizing =>
        /\ \A k \in 1..Len(result) :
              notes[k][2] \notin Sentinels =>
                  /\ Len(notes[k][2]) < config.min_characters <=> PathOf(k) = "short"
                  /\ Len(notes[k][2]) >= config.min_characters
                         <=> PathOf(k) \in DispatchedPaths
        /\ InSummarizeNote =>
              /\ CurNote \notin Sentinels
                     => Len(CurNote) >= config.min_characters
        /\ (pc = "append" /\ CurPath = "short") => calls = 0 /\ permits = 0
        /\ (pc = "append" /\ CurPath \in DispatchedPaths /\ config.max_retries >= 1)
               => calls >= 1 /\ permits = calls

C5_Witness ==
    /\ pc = "done"
    /\ Summarizing
    /\ \E j, k \in 1..Len(result) :
          /\ Len(notes[j][2]) = config.min_characters - 1
          /\ PathOf(j) = "short"
          /\ Len(notes[k][2]) = config.min_characters
          /\ PathOf(k) = "summarized"

\* C6: a note equal to a sentinel never reaches summarize_note, whatever
\* min_characters is: no provider call and no throttler acquisition is made
\* for it.
C6_SentinelNeverDispatched ==
    Summarizing =>
        /\ InSummarizeNote => CurNote \notin Sentinels
        /\ (pc \in {"loop", "append"} /\ idx < Len(notes) /\ CurNote \in Sentinels)
               => calls = 0 /\ permits = 0
        /\ \A k \in 1..Len(result) :
              notes[k][2] \in Sentinels => PathOf(k) = "sentinel"

C6_Witness ==
    /\ pc = "done"
    /\ Summarizing
    /\ \E j, k \in 1..Len(result) :
          /\ notes[j][2] = NoNotesSlide
          /\ config.min_characters <= Len(notes[j][2])
          /\ PathOf(j) = "sentinel"
          /\ PathOf(k) = "summarized"

\* C7 as claimed: a summary is present only in a Summarized outcome.
C7_SummaryOnlyWhenSummarized ==
    \A k \in 1..Len(summaries) :
        Truthy(summaries[k][2]) => PathOf(k) = "summarized"

\* C7 as amended: in a summarizing run a passed-through outcome carries the
\* note itself as its non-empty summary and a Failed outcome its error
\* string; in an extract-only run every summary is empty; and the writers
\* render a Summary section exactly for the non-empty summaries.
C7_PassThroughCarriesNote ==
    /\ \A k \in 1..Len(summaries) :
          /\ PathOf(k) \in {"sentinel", "short"} =>
                /\ summaries[k][2] = notes[k][2]
                /\ summaries[k][2] # <<>>
          /\ PathOf(k) = "failed" => Truthy(summaries[k][2])
          /\ PathOf(k) = "extract_only" => summaries[k][2] = <<>>
    /\ pc = "done" =>
          \A k \in 1..Len(doc) :
              (\E i \in 1..Len(doc[k]) : doc[k][i][1] = "Summary")
                  <=> (summaries[k][2] # <<>> /\ summaries[k][2] # None)

C7_Witness ==
    /\ pc = "done"
    /\ Summarizing
    /\ \E j, k \in 1..Len(summaries) :
          /\ PathOf(j) = "sentinel"
          /\ PathOf(k) = "short"
          /\ doc[j][2] = <<"Summary", notes[j][2]>>

----------------------------------------------------------------------------
(* Properties of clean_summary and of the adapters *)

\* C8: clean_summary is idempotent.
C8_Idempotent ==
    stage = "recleaned" => twice = once

\* the normalisation C9 describes: strip each line, strip its leading run of
\* '-' and ' ', drop the lines that are then empty, prefix the others by "- "
RECURSIVE DropBulletRun(_)
DropBulletRun(s) ==
    IF s # <<>> /\ Head(s) \in {"-", " "} THEN DropBulletRun(Tail(s)) ELSE s

RECURSIVE RefLines(_)
RefLines(lines) ==
    IF lines = <<>> THEN <<>>
    ELSE LET body == DropBulletRun(Strip(Head(lines)))
         IN  (IF body # <<>> THEN <<(<<"-", " ">> \o body)>> ELSE <<>>)
             \o RefLines(Tail(lines))

RefClean(s) == Join(RefLines(Split(s, "\n")), <<"\n">>)

WellFormedLine(line) ==
    /\ Len(line) >= 3
    /\ line[1] = "-"
    /\ line[2] = " "
    /\ line[3] \notin {"-", " "}

\* C9: clean_summary equals the reference normalisation, and every line of
\* its output is "- " followed by non-empty text that starts with neither
\* '-' nor ' '.
C9_MatchesReference ==
    stage = "cleaned" =>
        /\ once = RefClean(text)
        /\ once # <<>> =>
              \A i \in 1..Len(Split(once, "\n")) : WellFormedLine(Split(once, "\n")[i])

\* C10: what an adapter returns is a fixed point of clean_summary.
C10_AdaptersCanonical ==
    stage = "adapted" => clean_summary(once) = once

----------------------------------------------------------------------------
(* Errors, faults and the end of a run *)

Exited == pc = "exited"
\* the run ended on its own: it wrote its output, or a handler of main or of
\* __main__ ended the process
Ended == pc \in {"done", "exited"}

\* C11: a failed call leaves the adapter as a SummarizationError and never as
\* a result; a response without the expected text is never returned as a
\* summary, so that every summarized outcome is made of a text the provider
\* answered with.
C11_NoTextNeverASummary ==
    \A k \in 1..Len(result) :
        PathOf(k) = "summarized" => result[k].raw \in RawResponses

\* C12: no fault raised while one unit is processed ends the batch: after a
\* fault every unit still has its outcome, the unit of the fault has an error
\* text for summary, and the output is written.
C12_FaultIsolated ==
    (Ended /\ cause = "fault") =>
        /\ Len(result) = Len(notes)
        /\ writes = 1
        /\ doc # <<>>

Sections(k) == {doc[k][i] : i \in 1..Len(doc[k])}

\* C14 as claimed: every outcome triple carries the unit's original text, in
\* every run mode.
C14_OriginalTextAlwaysCarried ==
    \A k \in 1..Len(summaries) : summaries[k][3] = notes[k][2]

\* C14, amended: a triple carries the unit's original text unchanged, except
\* in a summarizing run under --summary-only, where the text is replaced by
\* the empty string; the output has the Notes section of a unit exactly when
\* the run is not summary-only, for Failed outcomes as for the others.
C14_OriginalTextUnlessSummaryOnly ==
    /\ \A k \in 1..Len(summaries) :
          summaries[k][3] = (IF Summarizing /\ args.summary_only
                             THEN <<>> ELSE notes[k][2])
    /\ pc = "done" =>
          \A k \in 1..Len(notes) :
              (<<"Notes", notes[k][2]>> \in Sections(k)) <=> ~args.summary_only

\* a Failed outcome written with its error text and its note, and one
\* written under --summary-only without the note
C14_Witness ==
    /\ pc = "done"
    /\ \E k \in 1..Len(summaries) :
          /\ PathOf(k) = "failed"
          /\ summaries[k][2] = ErrorSummary(AdapterError(args.ai))
          /\ ~args.summary_only
          /\ summaries[k][3] = notes[k][2]
          /\ <<"Notes", notes[k][2]>> \in Sections(k)

\* a configuration the contract calls invalid: a key is missing, or a
\* threshold is not a positive integer
ConfigError ==
    \/ config.problem # "none"
    \/ config.max_retries < 1
    \/ config.min_characters < 1

\* C15: a configuration error is fatal before any dispatch: in a run with
\* such a configuration no unit is processed, no provider call starts and no
\* output is written.
C15_ConfigErrorIsFatal ==
    ConfigError =>
        /\ result = <<>>
        /\ permits = 0
        /\ writes = 0

TerminalPaths == {"sentinel", "short", "summarized", "failed"}

\* C16: when a summarizing run has ended without being interrupted and without
\* a failure of its configuration or of its writer, every unit has reached one
\* of the terminal states Done, Failed or PassedThrough; no unit is left
\* pending.
C16_EveryUnitTerminal ==
    (Summarizing /\ Ended /\ cause \in {"completed", "fault"}) =>
        /\ Len(result) = Len(notes)
        /\ \A k \in 1..Len(result) : PathOf(k) \in TerminalPaths

\* C17: once the user's interrupt has arrived the run is over: the process
\* has exited with status 0 from __main__, so that no retry of summarize_note
\* or of the backoff wrapper starts another call, no later unit is dispatched
\* and no writer runs.
C17_NoCallAfterInterrupt ==
    cause = "interrupt" =>
        /\ pc = "exited"
        /\ exit_status = "0"
        /\ writes = 0

\* interrupted after the calls of the first unit failed and before the last
\* unit has an outcome
C17_Witness ==
    /\ cause = "interrupt"
    /\ pc = "exited"
    /\ Len(result) >= 1
    /\ PathOf(1) = "failed"
    /\ Len(result) < Len(notes)

\* C18: output is all-or-nothing. A writer is invoked at most once, and only
\* when every unit has its outcome; after an exception of a unit that
\* summarize_note does not catch, no writer was invoked, the outcomes of the
\* earlier units are gone and the process has exited with status 1.
C18_AllOrNothing ==
    /\ writes <= 1
    /\ writes = 1 => Len(result) = Len(notes)
    /\ doc # <<>> => (pc = "done" /\ Len(doc) = Len(notes))
    /\ cause = "fault" =>
          /\ pc = "exited"
          /\ exit_status = "1"
          /\ writes = 0
          /\ doc = <<>>
          /\ summaries = <<>>

\* a unit faults after an earlier unit's outcome was computed
C18_Witness ==
    /\ cause = "fault"
    /\ pc = "exited"
    /\ Len(result) >= 1
    /\ Len(result) < Len(notes)
    /\ exit_status = "1"

====
